---- MODULE Spec2Model ----
(***************************************************************************)
(* Job Store of work-flow-connect (src/src/contexts/JobContext.tsx).       *)
(*                                                                         *)
(* The provider keeps four React states (jobs, savedJobs, isLoading,       *)
(* error).  A setState call does not change the state the handlers see: it *)
(* queues an update, and the next render applies the queued updates in     *)
(* order, a functional updater to the value left by the one before it.     *)
(* The effects of a render (saved-jobs view, write-through to localStorage)*)
(* run from that render, before any later handler.  Handlers read the      *)
(* values of the render they were created in, which are the variables      *)
(* jobs and currentUser below.                                             *)
(*                                                                         *)
(* A job carries id, title, status, userId, userPhoto, timestamp,          *)
(* comments, likedBy, likesCount, savedBy.  description, budget, category, *)
(* skills and userName are carried by the code exactly like title and are  *)
(* represented by it.                                                      *)
(*                                                                         *)
(* The JobDetail page (src/src/pages/JobDetail.tsx) is mounted under the   *)
(* provider on the route of one job.  Its load effect depends on getJob    *)
(* and the three queries, which the provider creates anew in every render, *)
(* so the effect runs after every render of the provider.                  *)
(***************************************************************************)
EXTENDS Integers, Sequences, FiniteSets, TLC

VARIABLES
    jobs,         \* useState jobs, as of the last render
    savedJobs,    \* useState savedJobs, as of the last render
    isLoading,    \* useState isLoading
    error,        \* useState error
    currentUser,  \* useAuth().currentUser: a user id or NoUser
    queue,        \* state updates queued by setJobs/setSavedJobs/... since the last render
    cache,        \* localStorage item 'wfc_jobs'
    inflight,     \* fetchJobs calls awaiting the response of fetch()
    now,          \* Date.now()
    nOps,         \* handler calls made so far
    last,         \* the most recent step: its name, inputs, result and toast
    page,         \* the JobDetail page: its useState values and its handler awaiting the store
    mutatedInFlight  \* the rendered list has a mutation rendered while a load was in flight

vars == <<jobs, savedJobs, isLoading, error, currentUser, queue, cache, inflight, now, nOps, last,
          page, mutatedInFlight>>

----------------------------------------------------------------------------
(* Bounds of the model *)

MaxOps == 2        \* handler calls (store operations, user changes, reloads) in a run
MaxTicks == 1      \* clock ticks in a run

(* Program constants *)

DayMs == 86400000
CommentAgeMs == 43200000
ReplyAgeMs == 36000000
Now0 == 100        \* the clock value at mount; larger than every seed id

----------------------------------------------------------------------------
(* Values *)

Undefined == "undefined"
Null == "null"
NoUser == Null

Users == {"u1", "u2"}

\* the AuthContext user object behind a user id
UserObj(u) ==
    [id |-> u, name |-> IF u = "u1" THEN "Uno" ELSE "Dos",
     photoURL |-> IF u = "u1" THEN "p1" ELSE Undefined]

Digits == <<"0", "1", "2", "3", "4", "5", "6", "7", "8", "9">>

\* Number.prototype.toString for a non-negative integer
RECURSIVE ToStr(_)
ToStr(n) == IF n < 10 THEN Digits[n + 1] ELSE ToStr(n \div 10) \o Digits[(n % 10) + 1]

\* reading a property of an object: undefined when the object has no such property
Get(r, f) == IF f \in DOMAIN r THEN r[f] ELSE Undefined

\* x || d for the values used here (undefined, null and '' are falsy)
OrElse(x, d) == IF x \in {Undefined, Null, ""} THEN d ELSE x

Includes(s, x) == \E i \in 1..Len(s) : s[i] = x

\* Array.prototype.filter
Filter(s, Keep(_)) == SelectSeq(s, Keep)

\* Array.prototype.map
Map(s, F(_)) == [i \in 1..Len(s) |-> F(s[i])]

Max(a, b) == IF a > b THEN a ELSE b

----------------------------------------------------------------------------
(* getMockJobs *)

MockComment(t) ==
    [id |-> "c1", content |-> "Me interesa", userId |-> "user2", userName |-> "Laura",
     userPhoto |-> "women2", timestamp |-> t - CommentAgeMs,
     replies |-> << [id |-> "r1", content |-> "Gracias", userId |-> "user1",
                     userName |-> "Carlos", userPhoto |-> "men1",
                     timestamp |-> t - ReplyAgeMs] >>]

MockJob(id, title, userId, photo, status, ts, comments) ==
    [id |-> id, title |-> title, userId |-> userId, userPhoto |-> photo, status |-> status,
     timestamp |-> ts, comments |-> comments, likedBy |-> <<>>, savedBy |-> <<>>,
     likesCount |-> 0]

\* a seed whose job '2' carries the example comment as well
getMockJobsTwoCommented(t) ==
    << MockJob("1", "React", "user1", "men1", "open", t - DayMs * 2, <<MockComment(t)>>),
       MockJob("2", "Logo", "user3", "women3", "open", t - DayMs, <<MockComment(t)>>),
       MockJob("3", "Traduccion", "user4", "men4", "in-progress", t - DayMs * 5, <<>>),
       MockJob("4", "Movil", "user5", "women5", "open", t - DayMs * 3, <<>>),
       MockJob("5", "Video", "user1", "men1", "completed", t - DayMs * 10, <<>>) >>

getMockJobs(t) ==
    << MockJob("1", "React", "user1", "men1", "open", t - DayMs * 2, <<MockComment(t)>>),
       MockJob("2", "Logo", "user3", "women3", "open", t - DayMs, <<>>),
       MockJob("3", "Traduccion", "user4", "men4", "in-progress", t - DayMs * 5, <<>>),
       MockJob("4", "Movil", "user5", "women5", "open", t - DayMs * 3, <<>>),
       MockJob("5", "Video", "user1", "men1", "completed", t - DayMs * 10, <<>>) >>

----------------------------------------------------------------------------
(* JSON.stringify / JSON.parse of the job list, and localStorage           *)

\* properties whose value can be undefined (userPhoto?: string)
OptionalFields == {"userPhoto"}

\* a serialisation that writes an undefined property as null
StringifyJobUndefinedAsNull(job) ==
    [f \in DOMAIN job |-> IF f \in OptionalFields /\ job[f] = Undefined THEN Null ELSE job[f]]

\* JSON.stringify of an object leaves out the properties whose value is undefined
StringifyJob(job) ==
    [f \in {g \in DOMAIN job : ~(g \in OptionalFields /\ job[g] = Undefined)} |-> job[f]]

\* JSON.stringify(list): the text, represented by the value it denotes
Stringify(list) == [kind |-> "json", text |-> Map(list, StringifyJob)]

\* JSON.parse(text)
Parse(item) == item.text

\* localStorage without the item (getItem returns null)
NoCache == [kind |-> "none"]

----------------------------------------------------------------------------
(* The state updaters handed to setJobs, as functions of prevJobs          *)

\* { ...job, ...updates }
Merge(job, updates) ==
    [f \in DOMAIN job \cup DOMAIN updates |->
        IF f \in DOMAIN updates THEN updates[f] ELSE job[f]]

\* an addJob update that puts the new job last
AddJobUpdaterAppends(job, prevJobs) == Append(prevJobs, job)

\* addJob: prevJobs => [job, ...prevJobs]
AddJobUpdater(job, prevJobs) == <<job>> \o prevJobs

\* an update that merges the updates into every job of the list
UpdateJobUpdaterAll(jobId, updates, prevJobs) ==
    Map(prevJobs, LAMBDA job : Merge(job, updates))

\* updateJob: prevJobs.map(job => job.id === jobId ? { ...job, ...updates } : job)
UpdateJobUpdater(jobId, updates, prevJobs) ==
    Map(prevJobs, LAMBDA job : IF job.id = jobId THEN Merge(job, updates) ELSE job)

\* a delete that drops the first job of the list, whatever its id
DeleteJobUpdaterFirst(jobId, prevJobs) == IF prevJobs = <<>> THEN <<>> ELSE Tail(prevJobs)

\* deleteJob: prevJobs.filter(job => job.id !== jobId)
DeleteJobUpdater(jobId, prevJobs) == Filter(prevJobs, LAMBDA job : job.id # jobId)

\* a comment update that puts the new comment last
CommentUpdaterAppends(jobId, newComment, prevJobs) ==
    Map(prevJobs, LAMBDA job :
        IF job.id = jobId
        THEN [job EXCEPT !.comments = Append(job.comments, newComment)]
        ELSE job)

\* addCommentToJob: comments: [newComment, ...job.comments]
CommentUpdater(jobId, newComment, prevJobs) ==
    Map(prevJobs, LAMBDA job :
        IF job.id = jobId
        THEN [job EXCEPT !.comments = <<newComment>> \o job.comments]
        ELSE job)

\* addReplyToComment: replies: [...comment.replies, newReply]
ReplyUpdater(jobId, commentId, newReply, prevJobs) ==
    Map(prevJobs, LAMBDA job :
        IF job.id = jobId
        THEN [job EXCEPT !.comments =
                Map(job.comments, LAMBDA comment :
                    IF comment.id = commentId
                    THEN [comment EXCEPT !.replies = Append(comment.replies, newReply)]
                    ELSE comment)]
        ELSE job)

\* a toggle that adds the like without looking at likedBy
LikeJobAlwaysAdds(job, userId) ==
    [job EXCEPT !.likedBy = Append(job.likedBy, userId),
                !.likesCount = job.likesCount + 1]

\* toggleJobLike, one job
LikeJob(job, userId) ==
    IF Includes(job.likedBy, userId)
    THEN [job EXCEPT !.likedBy = Filter(job.likedBy, LAMBDA id : id # userId),
                     !.likesCount = Max(0, job.likesCount - 1)]
    ELSE [job EXCEPT !.likedBy = Append(job.likedBy, userId),
                     !.likesCount = job.likesCount + 1]

\* a toggle that leaves the counter alone when it takes the like away
LikeUpdaterKeepsCount(jobId, userId, prevJobs) ==
    Map(prevJobs, LAMBDA job :
        IF job.id = jobId
        THEN IF Includes(job.likedBy, userId)
             THEN [job EXCEPT !.likedBy = Filter(job.likedBy, LAMBDA id : id # userId)]
             ELSE [job EXCEPT !.likedBy = Append(job.likedBy, userId),
                              !.likesCount = job.likesCount + 1]
        ELSE job)

\* toggleJobLike: prevJobs.map(job => job.id === jobId ? ... : job)
LikeUpdater(jobId, userId, prevJobs) ==
    Map(prevJobs, LAMBDA job : IF job.id = jobId THEN LikeJob(job, userId) ELSE job)

\* toggleSaveJob, one job
SaveJob(job, userId) ==
    IF Includes(job.savedBy, userId)
    THEN [job EXCEPT !.savedBy = Filter(job.savedBy, LAMBDA id : id # userId)]
    ELSE [job EXCEPT !.savedBy = Append(job.savedBy, userId)]

\* toggleSaveJob: prevJobs.map(job => job.id === jobId ? ... : job)
SaveUpdater(jobId, userId, prevJobs) ==
    Map(prevJobs, LAMBDA job : IF job.id = jobId THEN SaveJob(job, userId) ELSE job)

\* a setJobs call that overwrites with a value computed from the rendered jobs
ApplyUpdateToRendered(u, prevJobs) ==
    CASE u.fn = "set"     -> u.value
      [] u.fn = "add"     -> AddJobUpdater(u.job, jobs)
      [] u.fn = "update"  -> UpdateJobUpdater(u.jobId, u.updates, jobs)
      [] u.fn = "delete"  -> DeleteJobUpdater(u.jobId, jobs)
      [] u.fn = "comment" -> CommentUpdater(u.jobId, u.comment, jobs)
      [] u.fn = "reply"   -> ReplyUpdater(u.jobId, u.commentId, u.reply, jobs)
      [] u.fn = "like"    -> LikeUpdater(u.jobId, u.userId, jobs)
      [] u.fn = "save"    -> SaveUpdater(u.jobId, u.userId, jobs)

\* one queued setJobs call applied to the value left by the updates before it
ApplyUpdate(u, prevJobs) ==
    CASE u.fn = "set"     -> u.value
      [] u.fn = "add"     -> AddJobUpdater(u.job, prevJobs)
      [] u.fn = "update"  -> UpdateJobUpdater(u.jobId, u.updates, prevJobs)
      [] u.fn = "delete"  -> DeleteJobUpdater(u.jobId, prevJobs)
      [] u.fn = "comment" -> CommentUpdater(u.jobId, u.comment, prevJobs)
      [] u.fn = "reply"   -> ReplyUpdater(u.jobId, u.commentId, u.reply, prevJobs)
      [] u.fn = "like"    -> LikeUpdater(u.jobId, u.userId, prevJobs)
      [] u.fn = "save"    -> SaveUpdater(u.jobId, u.userId, prevJobs)

\* the queued updates of one state
UpdatesOf(q, st) == SelectSeq(q, LAMBDA u : u.st = st)

RECURSIVE ApplyAll(_, _)
\* the render's new value of jobs: the queued setJobs calls applied in order
ApplyAll(q, prevJobs) ==
    IF q = <<>> THEN prevJobs
    ELSE ApplyAll(Tail(q), IF Head(q).st = "jobs" THEN ApplyUpdate(Head(q), prevJobs)
                           ELSE prevJobs)

\* the render's new value of a state that is only ever set to a value
LastSet(q, st, cur) ==
    LET us == UpdatesOf(q, st) IN IF us = <<>> THEN cur ELSE us[Len(us)].value

----------------------------------------------------------------------------
(* Queued state updates *)

SetJobs(value) == [st |-> "jobs", fn |-> "set", value |-> value]
SetSavedJobs(value) == [st |-> "savedJobs", value |-> value]
SetIsLoading(value) == [st |-> "isLoading", value |-> value]
\* a setError that clears the flag
SetErrorNull(value) == [st |-> "error", value |-> Null]

SetError(value) == [st |-> "error", value |-> value]

----------------------------------------------------------------------------
(* Queries: they read the jobs and the currentUser of the last render      *)

JobNotFound == [notFound |-> TRUE]

\* list.find(job => job.id === jobId)
FindJob(list, jobId) ==
    IF \E i \in 1..Len(list) : list[i].id = jobId
    THEN list[CHOOSE i \in 1..Len(list) :
                /\ list[i].id = jobId
                /\ \A k \in 1..(i - 1) : list[k].id # jobId]
    ELSE JobNotFound

getJob(jobId) == FindJob(jobs, jobId)

\* a membership test that does not look at the acting user
isJobSavedByAnyone(jobId) ==
    LET job == FindJob(jobs, jobId)
    IN IF job # JobNotFound THEN Len(job.savedBy) > 0 ELSE FALSE

isJobSavedByCurrentUser(jobId) ==
    IF currentUser = NoUser THEN FALSE
    ELSE LET job == FindJob(jobs, jobId)
         IN IF job # JobNotFound THEN Includes(job.savedBy, currentUser) ELSE FALSE

isJobLikedByCurrentUser(jobId) ==
    IF currentUser = NoUser THEN FALSE
    ELSE LET job == FindJob(jobs, jobId)
         IN IF job # JobNotFound THEN Includes(job.likedBy, currentUser) ELSE FALSE

getLikesCount(jobId) ==
    LET job == FindJob(jobs, jobId) IN IF job # JobNotFound THEN job.likesCount ELSE 0

----------------------------------------------------------------------------
(* Scheduling *)

\* Nothing is queued.  React renders at the end of the event whose handlers
\* queued updates, and again at once for an update queued by an effect, so a
\* response of fetch(), a clock tick, a reload or a change of user finds
\* the queue empty.
Idle == queue = <<>>

\* An event handler does not run between a render and the render of the
\* update its effect queued.
NoEffectUpdatePending == ~(last.op \in {"render", "setUser"} /\ queue # <<>>)

----------------------------------------------------------------------------
(* The JobDetail page *)

\* useParams().jobId of the page
PageJobId == "7"

\* no handler of the page is awaiting the store
NoCont == [op |-> "none"]

\* the page after its mount and its first load effect, the list being empty
PageInit ==
    [job |-> JobNotFound, loading |-> FALSE, liked |-> FALSE, saved |-> FALSE,
     likesCount |-> 0, cont |-> NoCont, clicked |-> "none"]

\* a load effect that leaves the like count alone
LoadEffectKeepsCount(pg) ==
    LET jobData == getJob(PageJobId)'
    IN  [pg EXCEPT !.job = jobData,
                   !.loading = FALSE,
                   !.liked = IF jobData # JobNotFound
                             THEN isJobLikedByCurrentUser(PageJobId)' ELSE @,
                   !.saved = IF jobData # JobNotFound
                             THEN isJobSavedByCurrentUser(PageJobId)' ELSE @]

\* the load effect of the page, run with the values of the new render
LoadEffect(pg) ==
    LET jobData == getJob(PageJobId)'
    IN  [pg EXCEPT !.job = jobData,
                   !.loading = FALSE,
                   !.liked = IF jobData # JobNotFound
                             THEN isJobLikedByCurrentUser(PageJobId)' ELSE @,
                   !.saved = IF jobData # JobNotFound
                             THEN isJobSavedByCurrentUser(PageJobId)' ELSE @,
                   !.likesCount = IF jobData # JobNotFound
                                  THEN getLikesCount(PageJobId)' ELSE @]

\* handleLikeJob / handleSaveJob after their await: they set the values their
\* closure holds from the render of the click
Continue(pg) ==
    CASE pg.cont.op = "none" -> pg
      [] pg.cont.op = "like" -> [pg EXCEPT !.liked = ~pg.cont.liked,
                                           !.likesCount = pg.cont.likesCount,
                                           !.job = pg.cont.job,
                                           !.cont = NoCont]
      [] pg.cont.op = "save" -> [pg EXCEPT !.saved = ~pg.cont.saved,
                                           !.job = pg.cont.job,
                                           !.cont = NoCont]

\* the page shows the job with its like and save buttons
ButtonsShown == page.loading = FALSE /\ page.job # JobNotFound /\ currentUser # NoUser

----------------------------------------------------------------------------
(* Effects *)

\* a filter that takes the jobs saved by anyone
updateSavedJobsOfAnyUser(list, user) == Filter(list, LAMBDA job : Len(job.savedBy) > 0)

\* updateSavedJobs: the value it hands to setSavedJobs
updateSavedJobs(list, user) ==
    IF user # NoUser
    THEN Filter(list, LAMBDA job : Includes(job.savedBy, user))
    ELSE <<>>

\* a persistence effect that writes the empty list too
PersistenceEffectAlways(list, item) == Stringify(list)

\* the persistence effect: localStorage after it ran for the list of a render
PersistenceEffect(list, item) == IF Len(list) > 0 THEN Stringify(list) ELSE item

\* whether the list has a mutation rendered while a load was in flight, after
\* a render that applied the updates us: a set drops the mutations before it
MutatedAfter(us) ==
    LET sets == {i \in 1..Len(us) : us[i].fn = "set"}
        mutations == {i \in 1..Len(us) : us[i].fn # "set" /\ \A k \in sets : k < i}
    IN  IF mutations # {} THEN inflight > 0 \/ (sets = {} /\ mutatedInFlight)
        ELSE IF sets # {} THEN FALSE
        ELSE mutatedInFlight

\* A render with the acting user `user`: the queued updates are applied, then
\* the effects whose dependencies changed run with the new values.
Commit(user) ==
    LET newJobs == ApplyAll(queue, jobs)
        jobsChanged == UpdatesOf(queue, "jobs") # <<>>
    IN  /\ jobs' = newJobs
        /\ savedJobs' = LastSet(queue, "savedJobs", savedJobs)
        /\ isLoading' = LastSet(queue, "isLoading", isLoading)
        /\ error' = LastSet(queue, "error", error)
        /\ currentUser' = user
        /\ cache' = IF jobsChanged THEN PersistenceEffect(newJobs, cache) ELSE cache
        /\ queue' = IF jobsChanged \/ user # currentUser
                    THEN <<SetSavedJobs(updateSavedJobs(newJobs, user))>>
                    ELSE <<>>
        /\ page' = Continue(LoadEffect(page))
        /\ mutatedInFlight' = MutatedAfter(UpdatesOf(queue, "jobs"))

\* React renders the provider after state updates were queued
Render ==
    /\ queue # <<>>
    /\ Commit(currentUser)
    /\ last' = [op |-> "render", applied |-> UpdatesOf(queue, "jobs"), after |-> last.op]
    /\ UNCHANGED <<inflight, now, nOps>>

\* the acting user changes (login, logout): the provider renders with the new user
SetUser(u) ==
    /\ nOps < MaxOps
    /\ Idle
    /\ u # currentUser
    /\ Commit(u)
    /\ last' = [op |-> "setUser", applied |-> UpdatesOf(queue, "jobs")]
    /\ nOps' = nOps + 1
    /\ UNCHANGED <<inflight, now>>

----------------------------------------------------------------------------
(* fetchJobs *)

\* user objects of a remote record projected to their ids: list?.map(user => user.id) || []
ProjectIds(job, f) == IF f \in DOMAIN job THEN Map(job[f], LAMBDA user : user.id) ELSE <<>>

\* a normalisation that takes the counter the record carries
FormatJobTrustsCount(job) ==
    Merge(job,
          [comments |-> IF "comments" \in DOMAIN job THEN job.comments ELSE <<>>,
           likedBy |-> ProjectIds(job, "likedBy"),
           savedBy |-> ProjectIds(job, "savedBy"),
           likesCount |-> IF "likesCount" \in DOMAIN job THEN job.likesCount ELSE 0])

\* one record of data.jobs normalised
FormatJob(job) ==
    Merge(job,
          [comments |-> IF "comments" \in DOMAIN job THEN job.comments ELSE <<>>,
           likedBy |-> ProjectIds(job, "likedBy"),
           savedBy |-> ProjectIds(job, "savedBy"),
           likesCount |-> IF "likedBy" \in DOMAIN job THEN Len(job.likedBy) ELSE 0])

FormatJobs(list) == Map(list, FormatJob)

\* Records the remote API answers with.  Likers and savers are user objects;
\* the API holds each user at most once per job.
RemoteJobA ==
    [id |-> "7", title |-> "Remoto", userId |-> "u2", userPhoto |-> "p2", status |-> "open",
     timestamp |-> 50, likesCount |-> 9,
     likedBy |-> <<[id |-> "u1", name |-> "Uno"], [id |-> "u2", name |-> "Dos"]>>,
     savedBy |-> <<[id |-> "u1", name |-> "Uno"]>>]

RemoteJobB ==
    [id |-> "1", title |-> "Otro", userId |-> "u1", userPhoto |-> "p1",
     status |-> "in-progress", timestamp |-> 60,
     comments |-> << [id |-> "c1", content |-> "Hola", userId |-> "u2", userName |-> "Dos",
                      userPhoto |-> "", timestamp |-> 61, replies |-> <<>>] >>]

RemoteLists == { <<RemoteJobB, RemoteJobA>>, <<RemoteJobA>>, <<>> }

\* refreshJobs: fetchJobs runs up to the await of fetch()
refreshJobs ==
    /\ nOps < MaxOps
    /\ NoEffectUpdatePending
    /\ inflight' = inflight + 1
    /\ queue' = Append(queue, SetIsLoading(TRUE))
    /\ nOps' = nOps + 1
    /\ last' = [op |-> "refreshJobs"]
    /\ UNCHANGED <<jobs, savedJobs, isLoading, error, currentUser, cache, now, page,
                   mutatedInFlight>>

\* a successful load that clears the error
FetchOkClearsError(remote) ==
    /\ inflight > 0
    /\ Idle
    /\ inflight' = inflight - 1
    /\ queue' = queue \o <<SetError(Null), SetJobs(FormatJobs(remote)), SetIsLoading(FALSE)>>
    /\ last' = [op |-> "fetchOk", remote |-> remote]
    /\ UNCHANGED <<jobs, savedJobs, isLoading, error, currentUser, cache, now, nOps, page,
                 mutatedInFlight>>

\* the response is ok and its body has jobs
FetchOk(remote) ==
    /\ inflight > 0
    /\ Idle
    /\ inflight' = inflight - 1
    /\ queue' = queue \o <<SetJobs(FormatJobs(remote)), SetIsLoading(FALSE)>>
    /\ last' = [op |-> "fetchOk", remote |-> remote]
    /\ UNCHANGED <<jobs, savedJobs, isLoading, error, currentUser, cache, now, nOps, page,
                 mutatedInFlight>>

\* the response is ok and its body has no jobs
FetchOkNoJobs ==
    /\ inflight > 0
    /\ Idle
    /\ inflight' = inflight - 1
    /\ queue' = Append(queue, SetIsLoading(FALSE))
    /\ last' = [op |-> "fetchOkNoJobs"]
    /\ UNCHANGED <<jobs, savedJobs, isLoading, error, currentUser, cache, now, nOps, page,
                 mutatedInFlight>>

\* fetch() rejects or the response is not ok: localStorage, else the mock jobs
FetchFail ==
    /\ inflight > 0
    /\ Idle
    /\ inflight' = inflight - 1
    /\ IF cache # NoCache
       THEN /\ queue' = queue \o <<SetJobs(Parse(cache)), SetIsLoading(FALSE)>>
            /\ cache' = cache
            /\ last' = [op |-> "fetchFail", source |-> "cache", item |-> cache]
       ELSE /\ queue' = queue \o <<SetJobs(getMockJobs(now)), SetIsLoading(FALSE)>>
            /\ cache' = Stringify(getMockJobs(now))
            /\ last' = [op |-> "fetchFail", source |-> "mock", item |-> cache]
    /\ UNCHANGED <<jobs, savedJobs, isLoading, error, currentUser, now, nOps, page,
                   mutatedInFlight>>

\* where the fallback of fetchJobs can throw: localStorage.getItem, JSON.parse
\* of the item, localStorage.setItem of the mock jobs
StorageFailures == {"getItem", "parse", "setItem"}

\* a fallback failure that also empties the job list
FetchFailStorageThrowsClearsJobs(cause) ==
    /\ inflight > 0
    /\ Idle
    /\ cause = "parse" => cache # NoCache
    /\ cause = "setItem" => cache = NoCache
    /\ inflight' = inflight - 1
    /\ queue' = queue \o <<SetJobs(<<>>), SetError("No se pudieron cargar los trabajos"),
                            SetIsLoading(FALSE)>>
    /\ last' = [op |-> "fetchFailStorageThrows", cause |-> cause, threw |-> FALSE]
    /\ UNCHANGED <<jobs, savedJobs, isLoading, error, currentUser, cache, now, nOps, page,
                 mutatedInFlight>>

\* fetch() fails and the fallback throws as well: the inner catch sets the
\* error, the finally block ends the loading, nothing is thrown further.
\* JSON.parse is reached with an item only, setItem without one and after
\* setJobs(mockJobs).
FetchFailStorageThrows(cause) ==
    /\ inflight > 0
    /\ Idle
    /\ cause = "parse" => cache # NoCache
    /\ cause = "setItem" => cache = NoCache
    /\ inflight' = inflight - 1
    /\ queue' = queue
                 \o (IF cause = "setItem" THEN <<SetJobs(getMockJobs(now))>> ELSE <<>>)
                 \o <<SetError("No se pudieron cargar los trabajos"), SetIsLoading(FALSE)>>
    /\ last' = [op |-> "fetchFailStorageThrows", cause |-> cause, threw |-> FALSE]
    /\ UNCHANGED <<jobs, savedJobs, isLoading, error, currentUser, cache, now, nOps, page,
                 mutatedInFlight>>

----------------------------------------------------------------------------
(* Inputs of the operations *)

JobIdInputs == {"1", "7"}
ReplyJobIdInputs == {"1"}
CommentIdInputs == {"c1"}
UserArgs == {NoUser, "u1"}
NewJobInputs == { [title |-> "Nuevo", userId |-> "u2", userPhoto |-> Undefined,
                   status |-> "open"] }
UpdateInputs == { [status |-> "completed"], [likesCount |-> 0] }

\* a handler call: counted, and the state of the last render is left as it is
\* (what becomes of the page is said by the caller)
Handler ==
    /\ nOps < MaxOps
    /\ NoEffectUpdatePending
    /\ nOps' = nOps + 1
    /\ UNCHANGED <<jobs, savedJobs, isLoading, error, currentUser, cache, inflight, now,
                   mutatedInFlight>>

----------------------------------------------------------------------------
(* The operations of the store *)

addJob(newJob) ==
    LET jobId == ToStr(now)
        job == Merge(newJob, [id |-> jobId, timestamp |-> now, comments |-> <<>>,
                              likedBy |-> <<>>, savedBy |-> <<>>, likesCount |-> 0])
    IN  /\ Handler
        /\ queue' = Append(queue, [st |-> "jobs", fn |-> "add", job |-> job])
        /\ last' = [op |-> "addJob", job |-> job, ret |-> jobId, toast |-> "Trabajo creado",
                    threw |-> FALSE]

updateJob(jobId, updates) ==
    /\ Handler
    /\ queue' = Append(queue, [st |-> "jobs", fn |-> "update", jobId |-> jobId,
                               updates |-> updates])
    /\ last' = [op |-> "updateJob", jobId |-> jobId, updates |-> updates,
                toast |-> "Trabajo actualizado", threw |-> FALSE]

deleteJob(jobId) ==
    /\ Handler
    /\ queue' = Append(queue, [st |-> "jobs", fn |-> "delete", jobId |-> jobId])
    /\ last' = [op |-> "deleteJob", jobId |-> jobId, toast |-> "Trabajo eliminado",
                threw |-> FALSE]

\* user.id of a null user throws: the catch sets the error and rethrows
addCommentToJob(jobId, content, user) ==
    /\ Handler
    /\ IF user = Null
       THEN /\ queue' = Append(queue, SetError("No se pudo añadir el comentario"))
            /\ last' = [op |-> "addCommentToJob", jobId |-> jobId, user |-> user,
                        toast |-> "none", threw |-> TRUE]
       ELSE LET newComment ==
                    [id |-> ToStr(now), content |-> content, userId |-> UserObj(user).id,
                     userName |-> UserObj(user).name,
                     userPhoto |-> OrElse(UserObj(user).photoURL, ""),
                     timestamp |-> now, replies |-> <<>>]
            IN  /\ queue' = Append(queue, [st |-> "jobs", fn |-> "comment",
                                           jobId |-> jobId, comment |-> newComment])
                /\ last' = [op |-> "addCommentToJob", jobId |-> jobId, user |-> user,
                            toast |-> "Comentario añadido", threw |-> FALSE]

addReplyToComment(jobId, commentId, content, user) ==
    /\ Handler
    /\ IF user = Null
       THEN /\ queue' = Append(queue, SetError("No se pudo añadir la respuesta"))
            /\ last' = [op |-> "addReplyToComment", jobId |-> jobId, user |-> user,
                        toast |-> "none", threw |-> TRUE]
       ELSE LET newReply ==
                    [id |-> ToStr(now), content |-> content, userId |-> UserObj(user).id,
                     userName |-> UserObj(user).name,
                     userPhoto |-> OrElse(UserObj(user).photoURL, ""),
                     timestamp |-> now]
            IN  /\ queue' = Append(queue, [st |-> "jobs", fn |-> "reply", jobId |-> jobId,
                                           commentId |-> commentId, reply |-> newReply])
                /\ last' = [op |-> "addReplyToComment", jobId |-> jobId, user |-> user,
                            toast |-> "Respuesta añadida", threw |-> FALSE]

\* a save toggle without the check of the acting user
toggleSaveJobUnguarded(jobId) ==
    /\ Handler
    /\ queue' = queue \o
            << [st |-> "jobs", fn |-> "save", jobId |-> jobId, userId |-> currentUser],
               SetSavedJobs(updateSavedJobs(jobs, currentUser)) >>
    /\ last' = [op |-> "toggleSaveJob", jobId |-> jobId,
                toast |-> IF isJobSavedByCurrentUser(jobId)
                          THEN "Propuesta eliminada" ELSE "Propuesta guardada",
                threw |-> FALSE]

toggleJobLike(jobId) ==
    /\ Handler
    /\ IF currentUser = NoUser
       THEN /\ queue' = queue
            /\ last' = [op |-> "toggleJobLike", jobId |-> jobId, toast |-> "Error",
                        threw |-> FALSE]
       ELSE /\ queue' = Append(queue, [st |-> "jobs", fn |-> "like", jobId |-> jobId,
                                       userId |-> currentUser])
            /\ last' = [op |-> "toggleJobLike", jobId |-> jobId,
                        toast |-> IF isJobLikedByCurrentUser(jobId)
                                  THEN "Like eliminado" ELSE "Like añadido",
                        threw |-> FALSE]

toggleSaveJob(jobId) ==
    /\ Handler
    /\ IF currentUser = NoUser
       THEN /\ queue' = queue
            /\ last' = [op |-> "toggleSaveJob", jobId |-> jobId, toast |-> "Error",
                        threw |-> FALSE]
       ELSE /\ queue' = queue \o
                    << [st |-> "jobs", fn |-> "save", jobId |-> jobId,
                        userId |-> currentUser],
                       SetSavedJobs(updateSavedJobs(jobs, currentUser)) >>
            /\ last' = [op |-> "toggleSaveJob", jobId |-> jobId,
                        toast |-> IF isJobSavedByCurrentUser(jobId)
                                  THEN "Propuesta eliminada" ELSE "Propuesta guardada",
                        threw |-> FALSE]

----------------------------------------------------------------------------
(* The handlers of the JobDetail page.  The buttons are rendered with a job *)
(* and a user only.  The handler calls the operation of the store and       *)
(* awaits it; what follows the await runs after the render of the updates   *)
(* the operation queued.                                                    *)

handleLikeJob ==
    /\ ButtonsShown
    /\ page.cont = NoCont
    /\ toggleJobLike(page.job.id)
    /\ page' = [page EXCEPT !.cont = [op |-> "like", liked |-> page.liked,
                                       likesCount |-> getLikesCount(page.job.id),
                                       job |-> getJob(page.job.id)],
                             !.clicked = "like"]

handleSaveJob ==
    /\ ButtonsShown
    /\ page.cont = NoCont
    /\ toggleSaveJob(page.job.id)
    /\ page' = [page EXCEPT !.cont = [op |-> "save", saved |-> page.saved,
                                       job |-> getJob(page.job.id)],
                             !.clicked = "save"]

----------------------------------------------------------------------------
(* The environment *)

\* time passes
Tick ==
    /\ now < Now0 + MaxTicks
    /\ nOps < MaxOps
    /\ Idle
    /\ now' = now + 1
    /\ last' = [op |-> "tick"]
    /\ UNCHANGED <<jobs, savedJobs, isLoading, error, currentUser, queue, cache, inflight, nOps,
                   page, mutatedInFlight>>

\* the page is loaded again: the provider mounts anew, localStorage is kept
Reload ==
    /\ nOps < MaxOps
    /\ Idle
    /\ nOps' = nOps + 1
    /\ jobs' = <<>>
    /\ savedJobs' = <<>>
    /\ isLoading' = TRUE
    /\ error' = Null
    /\ queue' = <<>>
    /\ inflight' = 1
    /\ last' = [op |-> "reload"]
    /\ page' = PageInit
    /\ mutatedInFlight' = FALSE
    /\ UNCHANGED <<currentUser, cache, now>>

----------------------------------------------------------------------------
(* The provider after its first render and mount effects: fetchJobs awaits *)
(* the response, the saved-jobs view is empty, nothing is persisted.       *)

Init ==
    /\ jobs = <<>>
    /\ savedJobs = <<>>
    /\ isLoading = TRUE
    /\ error = Null
    /\ currentUser \in {NoUser, "u1"}
    /\ queue = <<>>
    /\ cache = NoCache
    /\ inflight = 1
    /\ now = Now0
    /\ nOps = 0
    /\ last = [op |-> "mount"]
    /\ page = PageInit
    /\ mutatedInFlight = FALSE

Next ==
    \/ Render
    \/ \E u \in {NoUser} \cup Users : SetUser(u)
    \/ refreshJobs
    \/ \E remote \in RemoteLists : FetchOk(remote)
    \/ FetchOkNoJobs
    \/ FetchFail
    \/ \E cause \in StorageFailures : FetchFailStorageThrows(cause)
    \/ (\E newJob \in NewJobInputs : addJob(newJob)) /\ UNCHANGED page
    \/ (\E jobId \in JobIdInputs, updates \in UpdateInputs : updateJob(jobId, updates))
          /\ UNCHANGED page
    \/ (\E jobId \in JobIdInputs : deleteJob(jobId)) /\ UNCHANGED page
    \/ (\E jobId \in JobIdInputs, user \in UserArgs : addCommentToJob(jobId, "hola", user))
          /\ UNCHANGED page
    \/ (\E jobId \in ReplyJobIdInputs, commentId \in CommentIdInputs, user \in UserArgs :
            addReplyToComment(jobId, commentId, "vale", user)) /\ UNCHANGED page
    \/ (\E jobId \in JobIdInputs : toggleJobLike(jobId)) /\ UNCHANGED page
    \/ (\E jobId \in JobIdInputs : toggleSaveJob(jobId)) /\ UNCHANGED page
    \/ handleLikeJob
    \/ handleSaveJob
    \/ Tick
    \/ Reload

Spec == Init /\ [][Next]_vars

----------------------------------------------------------------------------
(* Properties *)

\* the setJobs calls the last render applied
Applied == IF last.op = "render" THEN last.applied ELSE <<>>

IsLike(u, jobId, userId) == u.fn = "like" /\ u.jobId = jobId /\ u.userId = userId

NoDuplicates(s) == \A i, k \in 1..Len(s) : s[i] = s[k] => i = k

Elements(s) == {s[i] : i \in 1..Len(s)}

\* C1: in every reachable state every job has likesCount equal to the number
\* of entries of its likedBy.
C1_LikesCountIsSize ==
    \A i \in 1..Len(jobs) : jobs[i].likesCount = Len(jobs[i].likedBy)

LikeOf(jobId, userId) == [st |-> "jobs", fn |-> "like", jobId |-> jobId, userId |-> userId]

\* every job of list b has the likedBy and the likesCount it has in list a
LikesRestored(a, b) ==
    /\ Len(b) = Len(a)
    /\ \A k \in 1..Len(a) :
          b[k].likedBy = a[k].likedBy /\ b[k].likesCount = a[k].likesCount

\* list b is list a after two toggles of userId on jobId, as the code makes them:
\* a user who had liked the job is moved to the end of likedBy, and a counter
\* that was 0 although the user had liked the job ends at 1
LikesRestoredUpToOrder(a, b, jobId, userId) ==
    /\ Len(b) = Len(a)
    /\ \A k \in 1..Len(a) :
          LET hadLiked == a[k].id = jobId /\ Includes(a[k].likedBy, userId)
          IN  /\ Elements(b[k].likedBy) = Elements(a[k].likedBy)
              /\ b[k].likedBy =
                    IF hadLiked
                    THEN Append(Filter(a[k].likedBy, LAMBDA id : id # userId), userId)
                    ELSE a[k].likedBy
              /\ b[k].likesCount =
                    IF hadLiked THEN Max(a[k].likesCount, 1) ELSE a[k].likesCount
              /\ [b[k] EXCEPT !.likedBy = <<>>, !.likesCount = 0]
                    = [a[k] EXCEPT !.likedBy = <<>>, !.likesCount = 0]

\* C3 as stated: two toggleJobLike calls in a row by the same user on the same
\* job (both applied by one render, or the second applied to the list the
\* render of the first left) give every job its original likedBy and likesCount.
C3_DoubleToggleRestores ==
    [][\A jobId \in JobIdInputs, userId \in Users :
         /\ (last'.op = "render"
               /\ last'.applied = <<LikeOf(jobId, userId), LikeOf(jobId, userId)>>)
            => LikesRestored(jobs, jobs')
         /\ (last'.op = "render" /\ last'.applied = <<LikeOf(jobId, userId)>>)
            => LikesRestored(jobs, LikeUpdater(jobId, userId, jobs'))]_vars

\* C3 amended: two toggleJobLike calls in a row by the same user on the same
\* job leave every other field and the set of likers of every job as they
\* were; likedBy and likesCount are restored exactly when the user had not
\* liked the job, and otherwise the user's id ends last in likedBy and
\* likesCount ends at max(original, 1).
C3_DoubleToggleRestoresLikers ==
    [][\A jobId \in JobIdInputs, userId \in Users :
         /\ (last'.op = "render"
               /\ last'.applied = <<LikeOf(jobId, userId), LikeOf(jobId, userId)>>)
            => LikesRestoredUpToOrder(jobs, jobs', jobId, userId)
         /\ (last'.op = "render" /\ last'.applied = <<LikeOf(jobId, userId)>>)
            => LikesRestoredUpToOrder(jobs, LikeUpdater(jobId, userId, jobs'),
                                      jobId, userId)]_vars

\* a render applied two toggles of a user who had liked the job
C3_Witness ==
    /\ last.op = "render"
    /\ \E jobId \in JobIdInputs, userId \in Users :
          /\ last.applied = <<LikeOf(jobId, userId), LikeOf(jobId, userId)>>
          /\ getJob(jobId) # JobNotFound
          /\ Includes(getJob(jobId).likedBy, userId)
          /\ Len(getJob(jobId).likedBy) > 1

\* the places in the job list of the jobs the acting user saved
SavedPlaces ==
    {k \in 1..Len(jobs) : currentUser # NoUser /\ Includes(jobs[k].savedBy, currentUser)}

\* savedJobs is the subsequence of jobs at SavedPlaces, in the order of jobs
SavedViewIsFilter ==
    /\ Len(savedJobs) = Cardinality(SavedPlaces)
    /\ \A k \in SavedPlaces : savedJobs[Cardinality({m \in SavedPlaces : m <= k})] = jobs[k]

\* C4 as stated: the Saved Jobs view always is the subsequence of the job list
\* saved by the acting user (empty without a user).
C4_SavedViewAlways == SavedViewIsFilter

\* C4 amended: whenever no state update is queued, the Saved Jobs view is the
\* subsequence of the job list saved by the acting user (empty without a
\* user); in the render that applies a change of the list or of the user the
\* view is still the one computed before the change.
C4_SavedViewWhenSettled == Idle => SavedViewIsFilter

\* settled, after toggleSaveJob put the acting user into savedBy of job '1'
C4_Witness ==
    /\ Idle
    /\ currentUser # NoUser
    /\ savedJobs # <<>>
    /\ \E i \in 1..Len(jobs) : jobs[i].id = "1" /\ Includes(jobs[i].savedBy, currentUser)

JobFields ==
    {"id", "title", "status", "userId", "userPhoto", "timestamp", "comments", "likedBy",
     "likesCount", "savedBy"}

\* two job lists read the same: every property of every job has the same value
SameJobs(a, b) ==
    /\ Len(a) = Len(b)
    /\ \A k \in 1..Len(a) : \A f \in JobFields : Get(a[k], f) = Get(b[k], f)

\* C5 as stated: once a render applied a mutation that changed the job list
\* and ran the persistence effect, the snapshot in the cache reads the same as
\* the in-memory list.
C5_MutationMirrored ==
    [][(/\ last'.op = "render"
        /\ \E i \in 1..Len(last'.applied) : last'.applied[i].fn # "set"
        /\ jobs' # jobs)
       => (cache' # NoCache /\ SameJobs(Parse(cache'), jobs'))]_vars

Odd(n) == n % 2 = 1

\* how many of the updates q toggle the like (the save) of userId on jobId
NLikes(q, jobId, userId) ==
    Cardinality({i \in 1..Len(q) :
                    q[i].fn = "like" /\ q[i].jobId = jobId /\ q[i].userId = userId})

NSaves(q, jobId, userId) ==
    Cardinality({i \in 1..Len(q) :
                    q[i].fn = "save" /\ q[i].jobId = jobId /\ q[i].userId = userId})

\* the comments the updates q add to jobId, the one dispatched last first
NewComments(q, jobId) ==
    LET cs == SelectSeq(q, LAMBDA u : u.fn = "comment" /\ u.jobId = jobId)
    IN  [i \in 1..Len(cs) |-> cs[Len(cs) + 1 - i].comment]

\* C6: when a render applies several likes, saves, comments and replies that
\* were dispatched back to back, none is lost: the list keeps its jobs, a user
\* is among the likers (savers) of a job after the render exactly when an odd
\* number of their toggles flipped what held before, every comment dispatched
\* is in the comments of its job, newest first before the earlier ones, and a
\* job whose likesCount was the size of likedBy still has it so.
C6_NoLostUpdate ==
    [][(/\ last'.op = "render"
        /\ Len(last'.applied) >= 2
        /\ \A i \in 1..Len(last'.applied) :
              last'.applied[i].fn \in {"like", "save", "comment", "reply"})
       => LET q == last'.applied
          IN  /\ Len(jobs') = Len(jobs)
              /\ \A k \in 1..Len(jobs) :
                    LET a == jobs[k]
                        b == jobs'[k]
                    IN  /\ b.id = a.id
                        /\ \A u \in Users :
                              /\ Includes(b.likedBy, u)
                                   = (Includes(a.likedBy, u) # Odd(NLikes(q, a.id, u)))
                              /\ Includes(b.savedBy, u)
                                   = (Includes(a.savedBy, u) # Odd(NSaves(q, a.id, u)))
                        /\ Len(b.comments) = Len(a.comments) + Len(NewComments(q, a.id))
                        /\ SubSeq(b.comments, 1, Len(NewComments(q, a.id)))
                             = NewComments(q, a.id)
                        /\ (a.likesCount = Len(a.likedBy)) => (b.likesCount = Len(b.likedBy))]_vars

\* a render applied a like and a comment on one job, and the job has both
C6_Witness ==
    /\ last.op = "render"
    /\ Len(Applied) = 2
    /\ \E x, y \in 1..Len(Applied), k \in 1..Len(jobs) :
          /\ Applied[x].fn = "like" /\ Applied[x].jobId = jobs[k].id
          /\ Applied[y].fn = "comment" /\ Applied[y].jobId = jobs[k].id
          /\ Includes(jobs[k].likedBy, Applied[x].userId)
          /\ jobs[k].comments # <<>>
          /\ jobs[k].comments[1] = Applied[y].comment

\* the update deleteJob queues
DeleteOf(jobId) == [st |-> "jobs", fn |-> "delete", jobId |-> jobId]

\* list b is list a without the jobs of id jobId: the others, in their order
OthersKept(a, b, jobId) ==
    LET keep == {k \in 1..Len(a) : a[k].id # jobId}
    IN  /\ Len(b) = Cardinality(keep)
        /\ \A k \in keep : b[Cardinality({m \in keep : m <= k})] = a[k]

\* C7: after the render that applies deleteJob(id) for an id of the list,
\* getJob(id) finds nothing, and the other jobs are in the list as before,
\* in the same order.
C7_DeletedJobNotFound ==
    [][\A jobId \in JobIdInputs :
         (/\ last'.op = "render"
          /\ last'.applied = <<DeleteOf(jobId)>>
          /\ getJob(jobId) # JobNotFound)
         => (FindJob(jobs', jobId) = JobNotFound /\ OthersKept(jobs, jobs', jobId))]_vars

\* job '7' was deleted from the remote list: job '1' of that list is what is left
C7_Witness ==
    /\ last.op = "render"
    /\ last.applied = <<DeleteOf("7")>>
    /\ getJob("7") = JobNotFound
    /\ Len(jobs) = 1
    /\ jobs[1].id = "1" /\ jobs[1].title = "Otro"

\* the seed dataset as the specification describes it
IsSeed(list) ==
    /\ Len(list) = 5
    /\ \A k \in 1..5 :
          /\ list[k].id = Digits[k + 1]
          /\ list[k].likedBy = <<>>
          /\ list[k].savedBy = <<>>
          /\ list[k].likesCount = 0
          /\ Len(list[k].comments) = IF k = 1 THEN 1 ELSE 0
    /\ Len(list[1].comments[1].replies) = 1
    /\ {list[k].status : k \in 1..5} = {"open", "in-progress", "completed"}

\* C8: when fetch fails and the cache holds nothing, the same step writes the
\* seed dataset to the cache and queues it as the job list, and the render of
\* that update leaves exactly the seed dataset in memory.
C8_SeedAdoptedAndCached ==
    [][/\ (last'.op = "fetchFail" /\ cache = NoCache)
          => /\ last'.source = "mock"
             /\ cache' # NoCache
             /\ IsSeed(Parse(cache'))
             /\ \E i \in 1..Len(queue') :
                   /\ queue'[i].st = "jobs" /\ queue'[i].fn = "set"
                   /\ IsSeed(queue'[i].value)
                   /\ SameJobs(queue'[i].value, Parse(cache'))
       /\ (last.op = "fetchFail" /\ last.source = "mock" /\ last'.op = "render")
          => (IsSeed(jobs') /\ SameJobs(Parse(cache'), jobs'))]_vars

\* the first load failed with an empty cache and its render left the seed
C8_Witness ==
    /\ nOps = 0
    /\ last.op = "render"
    /\ last.after = "fetchFail"
    /\ IsSeed(jobs)
    /\ cache # NoCache
    /\ IsSeed(Parse(cache))

\* C9: when fetch fails and the cache holds a snapshot, the step leaves the
\* cache alone and queues the deserialized snapshot, and its render leaves
\* exactly that snapshot in memory (the seed is not used); and the snapshot the
\* write-through leaves for a non-empty list reads the same as that list, so
\* a persisted list comes back unchanged.
C9_SnapshotAdopted ==
    [][/\ (last'.op = "fetchFail" /\ cache # NoCache)
          => /\ last'.source = "cache"
             /\ cache' = cache
             /\ \E i \in 1..Len(queue') :
                   /\ queue'[i].st = "jobs" /\ queue'[i].fn = "set"
                   /\ queue'[i].value = cache.text
       /\ (last.op = "fetchFail" /\ last.source = "cache" /\ last'.op = "render")
          => jobs' = cache.text
       /\ (last'.op = "render" /\ last'.applied # <<>> /\ jobs' # <<>>)
          => (cache' # NoCache /\ SameJobs(cache'.text, jobs'))]_vars

\* a failed load adopted a snapshot that holds a like given to job '1'
C9_Witness ==
    /\ last.op = "render"
    /\ last.after = "fetchFail"
    /\ Len(last.applied) = 1
    /\ last.applied[1].fn = "set"
    /\ last.applied[1].value = jobs
    /\ \E i \in 1..Len(jobs) : jobs[i].id = "1" /\ jobs[i].likedBy # <<>>

\* list v is the remote list r normalised as the specification describes it
NormalizedFrom(r, v) ==
    /\ Len(v) = Len(r)
    /\ \A k \in 1..Len(r) :
          LET x == r[k]
              y == v[k]
              nLikers == IF "likedBy" \in DOMAIN x THEN Len(x.likedBy) ELSE 0
              nSavers == IF "savedBy" \in DOMAIN x THEN Len(x.savedBy) ELSE 0
          IN  /\ \A f \in {"id", "title", "status", "userId", "userPhoto", "timestamp"} :
                    y[f] = x[f]
              /\ y.comments = IF "comments" \in DOMAIN x THEN x.comments ELSE <<>>
              /\ Len(y.likedBy) = nLikers
              /\ \A i \in 1..nLikers : y.likedBy[i] = x.likedBy[i].id
              /\ Len(y.savedBy) = nSavers
              /\ \A i \in 1..nSavers : y.savedBy[i] = x.savedBy[i].id
              /\ y.likesCount = nLikers

\* C10: when the response is ok and carries a job list, the step leaves the
\* cache alone and queues the normalised remote list, whatever the cache
\* holds, and its render leaves that normalised list in memory.
C10_RemoteListNormalized ==
    [][/\ (last'.op = "fetchOk")
          => /\ cache' = cache
             /\ \E i \in 1..Len(queue') :
                   /\ queue'[i].st = "jobs" /\ queue'[i].fn = "set"
                   /\ NormalizedFrom(last'.remote, queue'[i].value)
       /\ (last.op = "fetchOk" /\ last'.op = "render")
          => NormalizedFrom(last.remote, jobs')]_vars

\* a refresh or reload got the two remote jobs: job '7' has its two likers and
\* one saver as ids and the count 2, job '1' has none and keeps its comment
C10_Witness ==
    /\ nOps > 0
    /\ last.op = "render"
    /\ last.after = "fetchOk"
    /\ Len(jobs) = 2
    /\ jobs[1].likedBy = <<>> /\ jobs[1].likesCount = 0 /\ Len(jobs[1].comments) = 1
    /\ jobs[2].likedBy = <<"u1", "u2">> /\ jobs[2].likesCount = 2
    /\ jobs[2].savedBy = <<"u1">> /\ jobs[2].comments = <<>>

\* C11: when the fallback of a failed load throws while reading the cache or
\* deserialising the snapshot, the load throws nothing, queues the error
\* message and no update of the job list, and leaves the cache alone; the
\* render of it leaves the error set, the loading ended and the job list as
\* it was before the load.
C11_FallbackFailureSetsError ==
    [][/\ (last'.op = "fetchFailStorageThrows" /\ last'.cause \in {"getItem", "parse"})
          => /\ last'.threw = FALSE
             /\ UpdatesOf(queue', "jobs") = <<>>
             /\ \E i \in 1..Len(queue') :
                   queue'[i].st = "error" /\ queue'[i].value \notin {Null, Undefined, ""}
             /\ cache' = cache
             /\ jobs' = jobs
       /\ (/\ last.op = "fetchFailStorageThrows" /\ last.cause \in {"getItem", "parse"}
           /\ last'.op = "render")
          => /\ error' = "No se pudieron cargar los trabajos"
             /\ isLoading' = FALSE
             /\ jobs' = jobs
             /\ cache' = cache]_vars

\* a refresh of the loaded remote list failed in its fallback: the error is
\* set and the two remote jobs are still the list
C11_Witness ==
    /\ last.op = "render"
    /\ last.after = "fetchFailStorageThrows"
    /\ last.applied = <<>>
    /\ error = "No se pudieron cargar los trabajos"
    /\ isLoading = FALSE
    /\ Len(jobs) = 2
    /\ jobs[1].title = "Otro"

\* C12: a render that applied updates of the job list and left it non-empty
\* leaves in the cache a snapshot of the whole new list, in place of what
\* the cache held; a render that left the list empty leaves the cache as it
\* was.
C12_WriteThroughUnlessEmpty ==
    [][(last'.op = "render" /\ last'.applied # <<>>)
       => IF jobs' # <<>>
          THEN /\ cache' # NoCache
               /\ cache'.kind = "json"
               /\ SameJobs(Parse(cache'), jobs')
          ELSE cache' = cache]_vars

\* both jobs of the list were deleted: the list is empty and the cache still
\* holds the snapshot of the two jobs
C12_Witness ==
    /\ last.op = "render"
    /\ last.applied # <<>>
    /\ \A i \in 1..Len(last.applied) : last.applied[i].fn = "delete"
    /\ jobs = <<>>
    /\ cache # NoCache
    /\ Len(Parse(cache)) = 2

\* the title of the notification toggleJobLike and toggleSaveJob reject with
RejectionToast == "Error"

\* C13: toggleJobLike and toggleSaveJob called while no user is authenticated
\* queue no state update, so that the job list, the Saved Jobs view, the
\* cache and the error flag are what they were, also after the next render;
\* they emit the rejection notification and throw nothing.
C13_ToggleWithoutUserIsNoOp ==
    [][(last'.op \in {"toggleJobLike", "toggleSaveJob"} /\ currentUser = NoUser)
       => /\ queue' = queue
          /\ ApplyAll(queue', jobs) = ApplyAll(queue, jobs)
          /\ jobs' = jobs /\ savedJobs' = savedJobs /\ cache' = cache /\ error' = error
          /\ last'.toast = RejectionToast
          /\ last'.threw = FALSE]_vars

\* toggleSaveJob was rejected on the loaded remote list, nothing is queued
C13_Witness ==
    /\ last.op = "toggleSaveJob"
    /\ currentUser = NoUser
    /\ last.toast = RejectionToast
    /\ queue = <<>>
    /\ Len(jobs) = 2
    /\ savedJobs = <<>>

\* the operations of the store that change the job list
MutatingOps ==
    {"addJob", "updateJob", "deleteJob", "addCommentToJob", "addReplyToComment",
     "toggleJobLike", "toggleSaveJob"}

CommentOps == {"addCommentToJob", "addReplyToComment"}

\* the titles of the notifications of success
SuccessToasts ==
    {"Trabajo creado", "Trabajo actualizado", "Trabajo eliminado", "Comentario añadido",
     "Respuesta añadida", "Like añadido", "Like eliminado", "Propuesta guardada",
     "Propuesta eliminada"}

\* C14 as stated: addCommentToJob and addReplyToComment called without an
\* acting user behave as toggleJobLike and toggleSaveJob do without one: they
\* emit an error notification, throw nothing, and queue no update of the job
\* list.
C14_CommentWithoutUserGraceful ==
    [][(last'.op \in CommentOps /\ last'.user = NoUser)
       => /\ last'.toast # "none"
          /\ last'.threw = FALSE
          /\ UpdatesOf(queue', "jobs") = UpdatesOf(queue, "jobs")]_vars

\* C19 as stated: every call of a mutating operation emits a notification:
\* one of success when it succeeded, the error notification when it was
\* rejected for want of a user or failed.
C19_EveryOutcomeNotified ==
    last.op \in MutatingOps
    => IF last.threw \/ (last.op \in {"toggleJobLike", "toggleSaveJob"} /\ currentUser = NoUser)
       THEN last.toast = RejectionToast
       ELSE last.toast \in SuccessToasts

\* C20: addCommentToJob and addReplyToComment called with an absent user
\* object throw to the caller after queueing the error message of the
\* operation and no update of the job list; the render of it leaves the
\* error flag set to that message and the job list as it was.
C20_FailureSetsErrorAndRethrows ==
    [][/\ (last'.op \in CommentOps /\ last'.user = Null)
          => /\ last'.threw = TRUE
             /\ Len(queue') = Len(queue) + 1
             /\ SubSeq(queue', 1, Len(queue)) = queue
             /\ queue'[Len(queue')].st = "error"
             /\ queue'[Len(queue')].value
                  = IF last'.op = "addCommentToJob" THEN "No se pudo añadir el comentario"
                    ELSE "No se pudo añadir la respuesta"
             /\ jobs' = jobs
       /\ (last.op \in CommentOps /\ last.user = Null /\ last'.op = "render")
          => /\ error' = IF last.op = "addCommentToJob" THEN "No se pudo añadir el comentario"
                         ELSE "No se pudo añadir la respuesta"
             /\ jobs' = ApplyAll(SubSeq(queue, 1, Len(queue) - 1), jobs)
       /\ (/\ last.op \in CommentOps /\ last.user = Null /\ last'.op = "render"
           /\ last'.applied = <<>>)
          => jobs' = jobs]_vars

\* addReplyToComment without a user object failed on the loaded list: the
\* error flag is set and the list is as it was
C20_Witness ==
    /\ last.op = "render"
    /\ last.after = "addReplyToComment"
    /\ last.applied = <<>>
    /\ error = "No se pudo añadir la respuesta"
    /\ jobs # <<>>

\* sequence b is sequence a with x put in front
Prepended(a, b, x) ==
    /\ Len(b) = Len(a) + 1
    /\ b[1] = x
    /\ \A i \in 1..Len(a) : b[i + 1] = a[i]

\* sequence b is sequence a with x put at the end
Appended(a, b, x) ==
    /\ Len(b) = Len(a) + 1
    /\ b[Len(b)] = x
    /\ \A i \in 1..Len(a) : b[i] = a[i]

\* C15: the render of one addCommentToJob leaves the jobs of the given id with
\* the new comment first and their earlier comments after it in their order,
\* and nothing else changed; the render of one addReplyToComment leaves the
\* comments of the given id in the jobs of the given id with the new reply
\* last and their earlier replies before it in their order, and nothing else
\* changed.
C15_CommentFirstReplyLast ==
    [][/\ (/\ last'.op = "render" /\ Len(last'.applied) = 1
           /\ last'.applied[1].fn = "comment")
          => LET u == last'.applied[1]
             IN  /\ Len(jobs') = Len(jobs)
                 /\ \A k \in 1..Len(jobs) :
                       IF jobs[k].id = u.jobId
                       THEN /\ Prepended(jobs[k].comments, jobs'[k].comments, u.comment)
                            /\ [jobs'[k] EXCEPT !.comments = <<>>]
                                 = [jobs[k] EXCEPT !.comments = <<>>]
                       ELSE jobs'[k] = jobs[k]
       /\ (/\ last'.op = "render" /\ Len(last'.applied) = 1
           /\ last'.applied[1].fn = "reply")
          => LET u == last'.applied[1]
             IN  /\ Len(jobs') = Len(jobs)
                 /\ \A k \in 1..Len(jobs) :
                       IF jobs[k].id = u.jobId
                       THEN /\ Len(jobs'[k].comments) = Len(jobs[k].comments)
                            /\ [jobs'[k] EXCEPT !.comments = <<>>]
                                 = [jobs[k] EXCEPT !.comments = <<>>]
                            /\ \A c \in 1..Len(jobs[k].comments) :
                                  LET x == jobs[k].comments[c]
                                      y == jobs'[k].comments[c]
                                  IN  IF x.id = u.commentId
                                      THEN /\ Appended(x.replies, y.replies, u.reply)
                                           /\ [y EXCEPT !.replies = <<>>]
                                                = [x EXCEPT !.replies = <<>>]
                                      ELSE y = x
                       ELSE jobs'[k] = jobs[k]]_vars

\* job '1' of the seed got a comment and then a reply to its comment 'c1':
\* the new comment is before 'c1', the new reply after the reply 'r1'
C15_Witness ==
    /\ last.op = "render"
    /\ Len(last.applied) = 1
    /\ last.applied[1].fn = "reply"
    /\ getJob("1") # JobNotFound
    /\ Len(getJob("1").comments) = 2
    /\ getJob("1").comments[1].content = "hola"
    /\ getJob("1").comments[1].replies = <<>>
    /\ getJob("1").comments[2].id = "c1"
    /\ Len(getJob("1").comments[2].replies) = 2
    /\ getJob("1").comments[2].replies[1].id = "r1"
    /\ getJob("1").comments[2].replies[2] = last.applied[1].reply

\* the update updateJob(jobId, {status: 'completed'}) queues
CompleteOf(jobId) ==
    [st |-> "jobs", fn |-> "update", jobId |-> jobId, updates |-> [status |-> "completed"]]

\* C16: the render of one updateJob(id, {status: 'completed'}) leaves the list
\* with the same jobs at the same places; the jobs of that id have the status
\* 'completed' and every other property as before, every other job is
\* unchanged.
C16_StatusUpdateChangesOnlyStatus ==
    [][\A jobId \in JobIdInputs :
         (last'.op = "render" /\ last'.applied = <<CompleteOf(jobId)>>)
         => /\ Len(jobs') = Len(jobs)
            /\ \A k \in 1..Len(jobs) :
                  IF jobs[k].id = jobId
                  THEN /\ jobs'[k].status = "completed"
                       /\ DOMAIN jobs'[k] = DOMAIN jobs[k]
                       /\ \A f \in DOMAIN jobs[k] \ {"status"} : jobs'[k][f] = jobs[k][f]
                  ELSE jobs'[k] = jobs[k]]_vars

\* job '7' of the remote list was completed: it keeps its likers, its count
\* and its saver, and job '1' before it is still in progress
C16_Witness ==
    /\ last.op = "render"
    /\ last.applied = <<CompleteOf("7")>>
    /\ Len(jobs) = 2
    /\ jobs[1].id = "1" /\ jobs[1].status = "in-progress"
    /\ jobs[2].id = "7" /\ jobs[2].status = "completed"
    /\ jobs[2].likedBy = <<"u1", "u2">> /\ jobs[2].likesCount = 2
    /\ jobs[2].savedBy = <<"u1">>

\* C17 as stated: in every reachable state no two jobs of the list have the
\* same id.
C17_JobIdsUnique ==
    \A i, k \in 1..Len(jobs) : jobs[i].id = jobs[k].id => i = k

\* C18: addJob builds the job from its input with the id it returns, the
\* timestamp of the clock, no comments, likers or savers and likesCount 0, and
\* queues its insertion; a render whose last applied update is that insertion
\* leaves the job first in the list, where getJob of the returned id finds
\* it, and a render that applied the insertion alone leaves the previous jobs
\* after it in their order.
C18_AddJobPrepends ==
    [][/\ (last'.op = "addJob")
          => /\ last'.ret = last'.job.id
             /\ last'.ret = ToStr(now)
             /\ last'.job.timestamp = now
             /\ last'.job.comments = <<>>
             /\ last'.job.likedBy = <<>>
             /\ last'.job.savedBy = <<>>
             /\ last'.job.likesCount = 0
             /\ \E newJob \in NewJobInputs :
                   \A f \in DOMAIN newJob : last'.job[f] = newJob[f]
             /\ Appended(queue, queue', [st |-> "jobs", fn |-> "add", job |-> last'.job])
       /\ (last.op = "addJob" /\ last'.op = "render")
          => /\ jobs'[1] = last.job
             /\ FindJob(jobs', last.ret) = last.job
             /\ Len(last'.applied) = 1 => Prepended(jobs, jobs', last.job)]_vars

\* a job was added to the loaded remote list: it is first, before the two
\* remote jobs, and getJob of its id finds it
C18_Witness ==
    /\ last.op = "render"
    /\ last.after = "addJob"
    /\ Len(last.applied) = 1
    /\ Len(jobs) = 3
    /\ jobs[1].title = "Nuevo"
    /\ jobs[1].id = ToStr(jobs[1].timestamp)
    /\ jobs[1].likesCount = 0 /\ jobs[1].comments = <<>>
    /\ getJob(jobs[1].id) = jobs[1]
    /\ jobs[2].id = "1" /\ jobs[3].id = "7"

\* C25: the error flag is null after mount, and once it holds a message no
\* step of the mounted provider makes it null again and no step queues null
\* for it: no operation, no load and no render.
C25_ErrorIsSticky ==
    [][/\ (last.op = "mount" => error = Null)
       /\ (error # Null /\ last'.op # "reload") => error' # Null
       /\ \A i \in 1..Len(queue') : queue'[i].st = "error" => queue'[i].value # Null]_vars

\* a load that succeeded after a failed comment: the remote list is loaded
\* and the error is still set
C25_Witness ==
    /\ last.op = "render"
    /\ last.after = "fetchOk"
    /\ Len(jobs) = 2
    /\ isLoading = FALSE
    /\ error = "No se pudo añadir el comentario"

\* the job of id jobId in the list the updater of a call made now will be
\* applied to: the rendered list after the updates queued before the call
JobAtDispatch(jobId) == FindJob(ApplyAll(queue, jobs), jobId)

\* C26 as stated: the notification of an accepted toggleJobLike
\* (toggleSaveJob) says 'removed' exactly when the updater of the call takes
\* the acting user out of likedBy (savedBy) of the job, and 'added' exactly
\* when it puts the user in.
C26_ToastNamesTransition ==
    [][/\ (last'.op = "toggleJobLike" /\ currentUser # NoUser)
          => LET job == JobAtDispatch(last'.jobId)
                 removes == job # JobNotFound /\ Includes(job.likedBy, currentUser)
                 adds == job # JobNotFound /\ ~Includes(job.likedBy, currentUser)
             IN  /\ (last'.toast = "Like eliminado") = removes
                 /\ (last'.toast = "Like añadido") = adds
       /\ (last'.op = "toggleSaveJob" /\ currentUser # NoUser)
          => LET job == JobAtDispatch(last'.jobId)
                 removes == job # JobNotFound /\ Includes(job.savedBy, currentUser)
                 adds == job # JobNotFound /\ ~Includes(job.savedBy, currentUser)
             IN  /\ (last'.toast = "Propuesta eliminada") = removes
                 /\ (last'.toast = "Propuesta guardada") = adds]_vars

\* C24 as stated: whenever no state update is queued, isLoading is true
\* exactly when a load is in flight.
C24_LoadingTracksInFlight == Idle => (isLoading = (inflight > 0))

\* ids the queries are asked about: ids of loaded jobs, the id addJob gives at
\* the first clock value, an id no job has
QueryIdInputs == JobIdInputs \cup {ToStr(Now0), "0"}

\* C21: in every reachable state, for every id: when no job of the list has
\* the id, or (for the two membership tests) no user is authenticated, the
\* membership tests yield false and getLikesCount yields 0 for a missing job;
\* otherwise, with the first job of that id, isJobLikedByCurrentUser
\* (isJobSavedByCurrentUser) is whether its likedBy (savedBy) has the id of
\* the user and getLikesCount is its likesCount.  The queries are functions
\* of the rendered state.
C21_QueriesReadRenderedState ==
    \A jobId \in QueryIdInputs :
        LET places == {k \in 1..Len(jobs) : jobs[k].id = jobId}
        IN  IF places = {}
            THEN /\ isJobLikedByCurrentUser(jobId) = FALSE
                 /\ isJobSavedByCurrentUser(jobId) = FALSE
                 /\ getLikesCount(jobId) = 0
            ELSE LET job == jobs[CHOOSE k \in places : \A m \in places : k <= m]
                 IN  /\ isJobLikedByCurrentUser(jobId)
                          = (currentUser # NoUser /\ currentUser \in Elements(job.likedBy))
                     /\ isJobSavedByCurrentUser(jobId)
                          = (currentUser # NoUser /\ currentUser \in Elements(job.savedBy))
                     /\ getLikesCount(jobId) = job.likesCount

\* without a user, on the loaded remote list: job '7' has likers and a saver
\* and the tests say no, its count is 2, and the count of a missing job is 0
C21_Witness ==
    /\ currentUser = NoUser
    /\ getJob("7") # JobNotFound
    /\ getJob("7").savedBy # <<>>
    /\ isJobSavedByCurrentUser("7") = FALSE
    /\ isJobLikedByCurrentUser("7") = FALSE
    /\ getLikesCount("7") = 2
    /\ getJob("0") = JobNotFound
    /\ getLikesCount("0") = 0

\* what the page shows is what the store answers for the job of the page
PageShowsStoreValues ==
    /\ page.job = getJob(PageJobId)
    /\ page.liked = isJobLikedByCurrentUser(PageJobId)
    /\ page.saved = isJobSavedByCurrentUser(PageJobId)
    /\ page.likesCount = getLikesCount(PageJobId)

\* C22: whenever no state update is queued and no handler of the page awaits
\* the store, and the page shows the job with its like and save buttons, the
\* liked flag, the saved flag and the like count of the page are what
\* isJobLikedByCurrentUser, isJobSavedByCurrentUser and getLikesCount answer
\* for the job of the page, and the job shown is the one getJob answers.
C22_PageShowsStoreWhenSettled ==
    (Idle /\ page.cont = NoCont /\ ButtonsShown) => PageShowsStoreValues

\* user u1, who had liked and saved job '7', clicked the like button: settled,
\* the page shows the job not liked, still saved, with one like
C22_Witness ==
    /\ Idle
    /\ page.cont = NoCont
    /\ ButtonsShown
    /\ page.clicked = "like"
    /\ page.liked = FALSE
    /\ page.saved = TRUE
    /\ page.likesCount = 1
    /\ getLikesCount(PageJobId) = 1

\* C23 as stated: when a mutation was rendered while a load was in flight
\* and the list has not been set since, then the render of a failed load that
\* adopts the snapshot of the cache leaves the list as the mutations left it,
\* and the render of a successful load with a non-empty remote list leaves the
\* normalised remote list in memory and its snapshot in the cache.
C23_InFlightMutationFate ==
    [][/\ (/\ mutatedInFlight
           /\ last.op = "fetchFail" /\ last.source = "cache"
           /\ last'.op = "render")
          => SameJobs(jobs', jobs)
       /\ (/\ mutatedInFlight
           /\ last.op = "fetchOk" /\ last.remote # <<>>
           /\ last'.op = "render")
          => /\ jobs' = FormatJobs(last.remote)
             /\ cache' # NoCache
             /\ SameJobs(Parse(cache'), jobs')]_vars

====
